---- MODULE Spec2Model ----
(***************************************************************************)
(* A model of umi-bayes: the dedup.py orchestrator (two passes over a      *)
(* coordinate-sorted alignment file, a FIFO read buffer and a position     *)
(* tracker), the UMI helpers of lib/umi_data.py, apportion_counts and the  *)
(* result mapping of lib/bayes_estimate.py, and the founder numbers of     *)
(* lib/poisson_mixture.py.                                                 *)
(*                                                                         *)
(* An alignment record is a TLA+ record; its identity (Python's `is`) is   *)
(* its index in in_bam, and its mutable is_duplicate flag is the state     *)
(* variable is_duplicate[index].  A UMI is a sequence of one-character     *)
(* strings.                                                                *)
(***************************************************************************)
EXTENDS Integers, Sequences, FiniteSets, TLC

VARIABLES
  \* ---- dedup.py ----
  in_bam,        \* the input file: a sequence of alignment records
  dist,          \* args.dist
  remove,        \* args.remove
  umi_table,     \* args.umi_table: None, or the parsed table file
  pc,            \* position of the script
  err,           \* the exception that ended the run, or "none"
  nxt,           \* index in in_bam of the record the second pass reads next / holds
  is_duplicate,  \* record index -> the record's duplicate flag
  umi_totals,    \* first-pass table: UMI -> count (None before the first pass)
  read_buffer,   \* deque of record indices
  pos_tracker,   \* <<is_reverse, start_pos>> -> position group
  read_counter,  \* the summary counters
  out_bam,       \* the records written, each with its flag when written
  \* ---- history (not program state): what each eviction popped and wrote ----
  evictions,
  \* ---- lib/bayes_estimate.py: apportion_counts ----
  counts, target_sum, result,
  \* ---- lib/bayes_estimate.py: deduplicate_counts ----
  umi_counts, pi_post, umi_true,
  \* ---- lib/poisson_mixture.py: dedup_cluster ----
  theta,         \* min_bic_result.estimate[1]: component index -> rate
  index,         \* the maximum-responsibility component of an observed value
  data_i,        \* the number of UMIs with that observed value
  num_mol,       \* line 186
  est            \* line 192

dedupVars == <<in_bam, dist, remove, umi_table, pc, err, nxt, is_duplicate,
               umi_totals, read_buffer, pos_tracker, read_counter, out_bam,
               evictions>>
apportionVars == <<counts, target_sum, result>>
bayesVars == <<umi_counts, pi_post, umi_true>>
poissonVars == <<theta, index, data_i, num_mol, est>>
otherVars == <<apportionVars, bayesVars, poissonVars>>
vars == <<dedupVars, otherVars>>

\* Python's None, for a table and for a length
None == <<>>
NoLength == -1

(***************************************************************************)
(* Bounds of the model.                                                    *)
(***************************************************************************)
WindowReads == 3   \* records in an input file of Spec
MaxPos == 2        \* coordinates 1..MaxPos in an input file of Spec
FlagReads == 3     \* records in an input file of SpecFlags
SkipReads == 3     \* records in an input file of SpecSkip
CountReads == 3    \* records in an input file of SpecCount
MaxLen == 3        \* entries of a count list
MaxCount == 3      \* counts 0..MaxCount
MaxDraws == 2      \* posterior draws the sampler returns
PiDen == 2         \* a posterior draw is one of 0/PiDen .. PiDen/PiDen
MaxK == 3          \* mixture components
MaxData == 3       \* UMIs that share one observed value

(***************************************************************************)
(* Generic helpers.                                                        *)
(***************************************************************************)
RECURSIVE SeqSum(_)
SeqSum(s) == IF s = <<>> THEN 0 ELSE Head(s) + SeqSum(Tail(s))

\* the sum of the numbers in the set V, each taken weight[v] times
RECURSIVE WeightedSum(_, _)
WeightedSum(V, weight) ==
  IF V = {} THEN 0
  ELSE LET v == CHOOSE y \in V : TRUE
       IN v * weight[v] + WeightedSum(V \ {v}, weight)

\* the sum of f[x] over x in S, added up value by value
SetSum(S, f) ==
  LET V == {f[x] : x \in S}
  IN WeightedSum(V, [v \in V |-> Cardinality({x \in S : f[x] = v})])

Range(s) == {s[i] : i \in DOMAIN s}

SelectIn(s, S) == SelectSeq(s, LAMBDA x : x \in S)

Max(a, b) == IF a >= b THEN a ELSE b

(***************************************************************************)
(* lib/parse_sam.py (its behaviour as the specification states it)         *)
(***************************************************************************)
\* false for an unmapped, secondary, supplementary or QC-fail record
read_is_good(read) == read.flag \notin {"unmapped", "secondary", "supplementary", "qcfail"}

\* the 5' end: leftmost coordinate of a forward read, rightmost of a reverse read
get_start_pos(read) == IF read.is_reverse THEN read.rightmost ELSE read.reference_start

\* sum of the per-base qualities
get_quality(read) == SeqSum(read.query_qualities)

(***************************************************************************)
(* lib/umi_data.py                                                         *)
(***************************************************************************)
alphabet == {"A", "C", "G", "T"}
default_pair_separator == "+"

\* re_exclusion matches any character outside alphabet + separator
umi_is_good(umi) == \A i \in DOMAIN umi : umi[i] \in alphabet \cup {default_pair_separator}

\* every string of the given length over the alphabet
make_umi_list(length) == [1..length -> alphabet]

\* make_umi_counts(umi_list) with counts = None: every UMI at 0
make_umi_counts(umi_list) == [u \in umi_list |-> 0]

\* the UMI field of the read name
get_umi(read) == read.umi

\* read_umi_counts_from_reads: the table after the first k records of the file;
\* a record with [error |-> ...] stands for the exception raised.
RECURSIVE ScanReads(_, _, _, _)
ScanReads(file, k, totals, umi_length) ==
  IF k > Len(file) THEN [totals |-> totals, error |-> "none"]
  ELSE LET umi == get_umi(file[k])
           fresh == umi_length = NoLength
           len1 == IF fresh THEN Len(umi) ELSE umi_length
           tot1 == IF fresh THEN make_umi_counts(make_umi_list(len1)) ELSE totals
       IN IF ~fresh /\ Len(umi) # umi_length
          THEN [totals |-> None, error |-> "RuntimeError"]
          ELSE ScanReads(file, k + 1,
                         IF umi \in DOMAIN tot1
                         THEN [tot1 EXCEPT ![umi] = @ + 1]
                         ELSE tot1,           \* KeyError: exclude bad UMIs
                         len1)

read_umi_counts_from_reads(file) ==
  LET r == ScanReads(file, 1, None, NoLength)
  IN IF r.error = "none" /\ r.totals = None
     THEN [totals |-> None, error |-> "RuntimeError"]    \* no valid reads detected
     ELSE r

\* sum(umi_totals.values())
TableSum(t) == SetSum(DOMAIN t, t)

\* sorted(reads, key = get_quality): a stable insertion of x into an ascending list
RECURSIVE InsertByQuality(_, _)
InsertByQuality(x, sorted) ==
  IF sorted = <<>> THEN <<x>>
  ELSE IF get_quality(in_bam[Head(sorted)]) <= get_quality(in_bam[x])
       THEN <<Head(sorted)>> \o InsertByQuality(x, Tail(sorted))
       ELSE <<x>> \o sorted

RECURSIVE SortByQualityFrom(_, _)
SortByQualityFrom(reads, sorted) ==
  IF reads = <<>> THEN sorted
  ELSE SortByQualityFrom(Tail(reads), InsertByQuality(Head(reads), sorted))

sorted_reads(reads) == SortByQualityFrom(reads, <<>>)

\* mark_duplicates without the sort of line 72: the first n reads are marked
mark_duplicates_unsorted(reads, n, flags) ==
  LET marked == {reads[i] : i \in 1..n}
  IN [r \in DOMAIN flags |-> IF r \in marked THEN TRUE ELSE flags[r]]

\* mark_duplicates(reads, n): the flags after the n lowest-quality reads are marked
\* (assert len(reads) >= n: every caller passes n <= len(reads))
mark_duplicates(reads, n, flags) ==
  LET sorted == sorted_reads(reads)
      marked == {sorted[i] : i \in 1..n}
  IN [r \in DOMAIN flags |-> IF r \in marked THEN TRUE ELSE flags[r]]

(***************************************************************************)
(* lib/optical_duplicates.py and lib/naive_estimate.py (their behaviour as *)
(* the specification states it)                                            *)
(***************************************************************************)
\* two records are linked when their sensor coordinates are within max_dist
\* (the records of the model lie on one sensor row, so the Euclidean distance
\* is the difference of their x coordinates)
Linked(a, b, max_dist) ==
  LET d == in_bam[a].x - in_bam[b].x
  IN (IF d < 0 THEN -d ELSE d) <= max_dist

\* the connected component of the linkage graph that holds the records S
RECURSIVE Component(_, _, _)
Component(S, all, max_dist) ==
  LET T == S \cup {b \in all : \E a \in S : Linked(a, b, max_dist)}
  IN IF T = S THEN S ELSE Component(T, all, max_dist)

\* get_optical_duplicates(reads, max_dist): the components of two or more
\* records, each listing its records in the order of reads
get_optical_duplicates(reads, max_dist) ==
  {c \in {SelectIn(reads, Component({r}, Range(reads), max_dist)) : r \in Range(reads)} :
     Len(c) >= 2}

\* naive_estimate.deduplicate_counts: one molecule per UMI that was observed
naive_deduplicate_counts(umi_cnt) ==
  [u \in DOMAIN umi_cnt |-> IF umi_cnt[u] > 0 THEN 1 ELSE 0]

(***************************************************************************)
(* dedup.py: pop_buffer                                                    *)
(***************************************************************************)
\* the key of a record's position group in pos_tracker
GroupKey(read) == <<read.is_reverse, get_start_pos(read)>>

\* lines 41-46 for the list `reads` of one UMI: every optical cluster has all
\* but its best record marked, and the marked records leave the list
RECURSIVE MarkClusters(_, _)
MarkClusters(clusters, flags) ==
  IF clusters = {} THEN flags
  ELSE LET c == CHOOSE x \in clusters : TRUE
       IN MarkClusters(clusters \ {c}, mark_duplicates(c, Len(c) - 1, flags))

AllClusters(umi_reads) ==
  UNION {get_optical_duplicates(umi_reads[u], dist) : u \in DOMAIN umi_reads}

\* lines 41-46 without the removal of line 45: the records marked as optical
\* duplicates stay in the lists the PCR pass counts
OpticalPassKeepFlagged(umi_reads, flags) ==
  IF dist = 0 THEN [reads |-> umi_reads, flags |-> flags, optical |-> 0]
  ELSE LET clusters == AllClusters(umi_reads)
           lens == [c \in clusters |-> Len(c) - 1]
       IN [reads |-> umi_reads,
           flags |-> MarkClusters(clusters, flags),
           optical |-> SetSum(clusters, lens)]

OpticalPass(umi_reads, flags) ==
  IF dist = 0 THEN [reads |-> umi_reads, flags |-> flags, optical |-> 0]
  ELSE LET clusters == AllClusters(umi_reads)
           flags1 == MarkClusters(clusters, flags)
           clustered == UNION {Range(c) : c \in clusters}
           lens == [c \in clusters |-> Len(c) - 1]
       IN [reads |-> [u \in DOMAIN umi_reads |->
                        SelectSeq(umi_reads[u],
                                  LAMBDA r : ~(r \in clustered /\ flags1[r]))],
           flags |-> flags1,
           optical |-> SetSum(clusters, lens)]

\* lines 49-53: the group's counts over the UMI universe, and the estimate
GroupCounts(umi_reads) ==
  [u \in DOMAIN umi_totals \cup DOMAIN umi_reads |->
     IF u \in DOMAIN umi_reads THEN Len(umi_reads[u]) ELSE 0]

\* lines 55-58: per UMI, len(reads) - dedup_counts[umi] records are marked
RECURSIVE MarkPcr(_, _, _, _)
MarkPcr(umis, umi_reads, dedup_counts, flags) ==
  IF umis = {} THEN flags
  ELSE LET u == CHOOSE x \in umis : TRUE
       IN MarkPcr(umis \ {u}, umi_reads, dedup_counts,
                  mark_duplicates(umi_reads[u], Len(umi_reads[u]) - dedup_counts[u], flags))

\* lines 37-62: what deduplicating a position group does
Deduplicate(umi_reads, flags) ==
  LET opt == OpticalPass(umi_reads, flags)
      dedup_counts == naive_deduplicate_counts(GroupCounts(opt.reads))
      n_dup == [u \in DOMAIN umi_reads |-> Len(opt.reads[u]) - dedup_counts[u]]
  IN [reads |-> opt.reads,
      flags |-> MarkPcr(DOMAIN umi_reads, opt.reads, dedup_counts, opt.flags),
      optical |-> opt.optical,
      pcr |-> SetSum(DOMAIN umi_reads, n_dup),
      unique |-> SetSum(DOMAIN dedup_counts, dedup_counts)]

\* The records the name `read` can be bound to when line 65 runs.  The loop of
\* line 44 rebinds the function's local `read` (the popped record) to each
\* record of each optical cluster; after the loops it names the last record of
\* the cluster iterated last.  A dict's iteration order and the detector's
\* cluster order are not fixed, so any cluster can be the last one.
ReadAtOutput(popped, this_pos) ==
  IF ~this_pos.deduplicated /\ dist # 0 /\ AllClusters(this_pos.reads) # {}
  THEN {c[Len(c)] : c \in AllClusters(this_pos.reads)}
  ELSE {popped}

\* pop_buffer, with `read` the record that name is bound to at line 65
pop_buffer(read) ==
  LET popped == Head(read_buffer)
      key == GroupKey(in_bam[popped])
  IN IF key \notin DOMAIN pos_tracker
     THEN \* line 34 raises KeyError
          /\ read_buffer' = Tail(read_buffer)
          /\ pc' = "crashed"
          /\ err' = "KeyError"
          /\ evictions' = Append(evictions,
                [popped |-> popped, written |-> 0, pruned |-> FALSE, raised |-> TRUE,
                 deduplicated |-> FALSE, members |-> {}, last_read |-> 0])
          /\ UNCHANGED <<is_duplicate, pos_tracker, read_counter, out_bam>>
     ELSE LET this_pos == pos_tracker[key]
              dd == IF this_pos.deduplicated
                    THEN [reads |-> this_pos.reads, flags |-> is_duplicate,
                          optical |-> 0, pcr |-> 0, unique |-> 0]
                    ELSE Deduplicate(this_pos.reads, is_duplicate)
              write == ~(remove /\ dd.flags[read])
              prune == read = this_pos.last_read
          IN /\ read_buffer' = Tail(read_buffer)
             /\ is_duplicate' = dd.flags
             /\ read_counter' = [read_counter EXCEPT
                                   !.optical_duplicate = @ + dd.optical,
                                   !.PCR_duplicate = @ + dd.pcr,
                                   !.unique = @ + dd.unique]
             /\ out_bam' = IF write
                           THEN Append(out_bam, [read |-> read,
                                                 is_duplicate |-> dd.flags[read]])
                           ELSE out_bam
             /\ pos_tracker' =
                  IF prune
                  THEN [k \in DOMAIN pos_tracker \ {key} |-> pos_tracker[k]]
                  ELSE [pos_tracker EXCEPT ![key] =
                          [reads |-> dd.reads, deduplicated |-> TRUE,
                           last_read |-> this_pos.last_read]]
             /\ evictions' = Append(evictions,
                   [popped |-> popped, written |-> IF write THEN read ELSE 0,
                    pruned |-> prune, raised |-> FALSE,
                    last_read |-> this_pos.last_read,
                    deduplicated |-> ~this_pos.deduplicated,
                    members |-> UNION {Range(this_pos.reads[u]) : u \in DOMAIN this_pos.reads}])
             /\ UNCHANGED <<pc, err>>

PopBuffer ==
  LET popped == Head(read_buffer)
      key == GroupKey(in_bam[popped])
  IN IF key \in DOMAIN pos_tracker
     THEN \E read \in ReadAtOutput(popped, pos_tracker[key]) : pop_buffer(read)
     ELSE pop_buffer(popped)

(***************************************************************************)
(* lib/umi_data.py: read_umi_counts_from_table.  A table file is a         *)
(* sequence of lines, a line the sequence of its whitespace-separated      *)
(* fields: <<umi>>, <<umi, count>> or <<>> for an empty line.              *)
(***************************************************************************)
RECURSIVE ScanTable(_, _)
ScanTable(lines, table) ==
  IF lines = <<>> THEN table
  ELSE LET split_line == Head(lines)
       IN ScanTable(Tail(lines),
            IF split_line = <<>> THEN table
            ELSE LET umi == split_line[1]
                     count == IF Len(split_line) >= 2 THEN split_line[2] ELSE 0
                 IN [u \in DOMAIN table \cup {umi} |->
                       IF u = umi THEN count ELSE table[u]])

read_umi_counts_from_table(lines) ==
  LET t == ScanTable(lines, None)
  IN IF t = None THEN [totals |-> None, error |-> "RuntimeError"]
     ELSE [totals |-> t, error |-> "none"]

(***************************************************************************)
(* dedup.py: the script                                                    *)
(***************************************************************************)
\* lines 71-77: the UMI totals come from the table, or from a scan of the input
FirstPass ==
  /\ pc = "first pass"
  /\ LET r == IF umi_table = None
              THEN read_umi_counts_from_reads(in_bam)
              ELSE read_umi_counts_from_table(umi_table)
     IN /\ umi_totals' = r.totals
        /\ pc' = IF r.error = "none" THEN "read" ELSE "crashed"
        /\ err' = r.error
  /\ UNCHANGED <<in_bam, dist, remove, umi_table, nxt, is_duplicate, read_buffer,
                 pos_tracker, read_counter, out_bam, evictions, otherVars>>

\* whether the second pass takes the record (lines 82-84)
Accepted(read) == read_is_good(read) /\ umi_is_good(get_umi(read))

\* lines 81-87 with the flag reset of line 85 moved before the two checks
NextRecordResetFirst ==
  /\ pc = "read"
  /\ nxt <= Len(in_bam)
  /\ is_duplicate' = [is_duplicate EXCEPT ![nxt] = FALSE]
  /\ IF ~read_is_good(in_bam[nxt]) \/ ~umi_is_good(get_umi(in_bam[nxt]))
     THEN /\ nxt' = nxt + 1
          /\ UNCHANGED <<pc, read_counter>>
     ELSE /\ read_counter' = [read_counter EXCEPT !.read = @ + 1]
          /\ pc' = "advance"
          /\ UNCHANGED nxt
  /\ UNCHANGED <<in_bam, dist, remove, umi_table, err, umi_totals, read_buffer,
                 pos_tracker, out_bam, evictions, otherVars>>

\* lines 81-87: the next record is skipped, or has its flag reset and is counted
NextRecord ==
  /\ pc = "read"
  /\ nxt <= Len(in_bam)
  /\ IF ~read_is_good(in_bam[nxt]) \/ ~umi_is_good(get_umi(in_bam[nxt]))
     THEN /\ nxt' = nxt + 1
          /\ UNCHANGED <<pc, is_duplicate, read_counter>>
     ELSE /\ is_duplicate' = [is_duplicate EXCEPT ![nxt] = FALSE]
          /\ read_counter' = [read_counter EXCEPT !.read = @ + 1]
          /\ pc' = "advance"
          /\ UNCHANGED nxt
  /\ UNCHANGED <<in_bam, dist, remove, umi_table, err, umi_totals, read_buffer,
                 pos_tracker, out_bam, evictions, otherVars>>

\* line 90 with <= for <: a record at the oldest record's own position evicts it
AdvanceConditionInclusive(oldest, read) ==
  \/ oldest.reference_id < read.reference_id
  \/ get_start_pos(oldest) <= read.reference_start

\* line 90: the oldest buffered record is at a position that gets no more hits
AdvanceCondition(oldest, read) ==
  \/ oldest.reference_id < read.reference_id
  \/ get_start_pos(oldest) < read.reference_start

\* line 90: one iteration of the while loop
Advance ==
  /\ pc = "advance"
  /\ read_buffer # <<>>
  /\ AdvanceCondition(in_bam[Head(read_buffer)], in_bam[nxt])
  /\ PopBuffer
  /\ UNCHANGED <<in_bam, dist, remove, umi_table, nxt, umi_totals, otherVars>>

\* lines 93-101: the record joins the buffer and its position group
AddToTracker(tracker, read, key, umi) ==
  IF key \in DOMAIN tracker
  THEN [tracker EXCEPT ![key] =
          [reads |-> [u \in DOMAIN @.reads \cup {umi} |->
                        IF u \in DOMAIN @.reads
                        THEN IF u = umi THEN Append(@.reads[u], read) ELSE @.reads[u]
                        ELSE <<read>>],
           deduplicated |-> @.deduplicated,
           last_read |-> read]]
  ELSE [k \in DOMAIN tracker \cup {key} |->
          IF k = key
          THEN [reads |-> [u \in {umi} |-> <<read>>], deduplicated |-> FALSE,
                last_read |-> read]
          ELSE tracker[k]]

AddRead ==
  /\ pc = "advance"
  /\ ~(read_buffer # <<>> /\ AdvanceCondition(in_bam[Head(read_buffer)], in_bam[nxt]))
  /\ read_buffer' = Append(read_buffer, nxt)
  /\ pos_tracker' = AddToTracker(pos_tracker, nxt, GroupKey(in_bam[nxt]),
                                 get_umi(in_bam[nxt]))
  /\ nxt' = nxt + 1
  /\ pc' = "read"
  /\ UNCHANGED <<in_bam, dist, remove, umi_table, err, is_duplicate, umi_totals,
                 read_counter, out_bam, evictions, otherVars>>

\* the for loop of line 81 ends
EndOfInput ==
  /\ pc = "read"
  /\ nxt > Len(in_bam)
  /\ pc' = "flush"
  /\ UNCHANGED <<in_bam, dist, remove, umi_table, err, nxt, is_duplicate, umi_totals,
                 read_buffer, pos_tracker, read_counter, out_bam, evictions, otherVars>>

\* line 104: one iteration of the flush
Flush ==
  /\ pc = "flush"
  /\ read_buffer # <<>>
  /\ PopBuffer
  /\ UNCHANGED <<in_bam, dist, remove, umi_table, nxt, umi_totals, otherVars>>

\* lines 107-113: the consistency assertion, then the statistics are reported
Summary ==
  /\ pc = "flush"
  /\ read_buffer = <<>>
  /\ IF umi_table = None /\ TableSum(umi_totals) # read_counter.read
     THEN pc' = "crashed" /\ err' = "AssertionError"
     ELSE pc' = "done" /\ UNCHANGED err
  /\ UNCHANGED <<in_bam, dist, remove, umi_table, nxt, is_duplicate, umi_totals,
                 read_buffer, pos_tracker, read_counter, out_bam, evictions, otherVars>>

Next ==
  \/ FirstPass
  \/ NextRecord
  \/ Advance
  \/ AddRead
  \/ EndOfInput
  \/ Flush
  \/ Summary

(***************************************************************************)
(* Input files.                                                            *)
(***************************************************************************)
Record(ref, left, rev, span, umi, q, x, flag, dup) ==
  [reference_id |-> ref, reference_start |-> left, is_reverse |-> rev,
   rightmost |-> left + span, umi |-> umi, query_qualities |-> q, x |-> x,
   flag |-> flag, was_duplicate |-> dup]

\* coordinate-sorted: by reference id, then by leftmost coordinate
CoordinateSorted(file) ==
  \A i, j \in DOMAIN file :
     i < j => \/ file[i].reference_id < file[j].reference_id
              \/ /\ file[i].reference_id = file[j].reference_id
                 /\ file[i].reference_start <= file[j].reference_start

Files(records, n) ==
  {f \in UNION {[1..k -> records] : k \in 0..n} : CoordinateSorted(f)}

\* a call that has not returned
Pending == [raised |-> "pending", value |-> <<>>]

ApportionIdle == counts = <<>> /\ target_sum = 0 /\ result = Pending
BayesIdle == umi_counts = <<>> /\ pi_post = <<>> /\ umi_true = Pending
PoissonIdle == theta = <<>> /\ index = 0 /\ data_i = 0 /\ num_mol = <<>> /\ est = -1

Idle == ApportionIdle /\ BayesIdle /\ PoissonIdle

DedupStart(files, dists, removes, tables, at) ==
  /\ in_bam \in files
  /\ dist \in dists
  /\ remove \in removes
  /\ umi_table \in tables
  /\ pc = at
  /\ err = "none"
  /\ nxt = 1
  /\ is_duplicate = [i \in DOMAIN in_bam |-> in_bam[i].was_duplicate]
  /\ umi_totals = None
  /\ read_buffer = <<>>
  /\ pos_tracker = <<>>
  /\ read_counter = [read |-> 0, optical_duplicate |-> 0, PCR_duplicate |-> 0,
                     unique |-> 0]
  /\ out_bam = <<>>
  /\ evictions = <<>>

DedupInit(files, dists, removes, tables) ==
  DedupStart(files, dists, removes, tables, "first pass") /\ Idle

\* the script is not run
DedupIdle == DedupStart({<<>>}, {0}, {FALSE}, {None}, "idle")

UmiA == <<"A">>
UmiC == <<"C">>
UmiSingle == <<"A", "C", "G">>
UmiPaired == <<"A", "+", "C">>
UmiBad == <<"A", "N", "G">>
TableFile == << <<UmiA, 2>>, <<>>, <<UmiC>> >>

RefIds == {1, 2}
Quals == {<<1>>, <<2>>}
Pixels == {0, 1, 2}
OpticalDist == {1}

\* Spec: files over two references with forward reads and reverse reads that
\* end at or after their leftmost coordinate; every record has the same UMI
\* and sensor position, so with optical detection every group of two or more
\* records is one optical cluster.
WindowRecords ==
  {r \in {Record(ref, left, rev, span, UmiA, <<1>>, 0, "ok", FALSE) :
            ref \in RefIds, left \in 1..MaxPos, rev \in BOOLEAN, span \in 0..MaxPos} :
     /\ r.rightmost <= MaxPos
     /\ ~r.is_reverse => r.rightmost = r.reference_start}

Init == DedupInit(Files(WindowRecords, WindowReads), {0} \cup OpticalDist, BOOLEAN, {None})

Spec == Init /\ [][Next]_vars

\* SpecFlags: files of forward reads at one position with two UMIs, two
\* quality totals and three sensor positions, which reads at a later position
\* may follow; sensor positions vary only when optical detection is enabled
FlagRecords(pixels) ==
  {Record(1, 1, FALSE, 0, umi, q, x, "ok", FALSE) :
     umi \in {UmiA, UmiC}, q \in Quals, x \in pixels}
  \cup {Record(1, 2, FALSE, 0, UmiA, <<1>>, 0, "ok", FALSE)}

InitFlags ==
  \/ DedupInit(Files(FlagRecords({0}), FlagReads), {0}, {FALSE}, {TableFile})
  \/ DedupInit(Files(FlagRecords(Pixels), FlagReads), OpticalDist, {FALSE}, {TableFile})

SpecFlags == InitFlags /\ [][Next]_vars

\* SpecSkip: files of forward reads at two positions that mix usable records
\* with single and paired UMIs, records with a bad UMI and secondary
\* alignments, each with its duplicate flag set or clear on input
SkipKinds == {<<UmiSingle, "ok">>, <<UmiPaired, "ok">>, <<UmiBad, "ok">>,
              <<UmiSingle, "secondary">>}

SkipRecords ==
  {Record(1, left, FALSE, 0, kind[1], <<1>>, 0, kind[2], dup) :
     left \in {1, 2}, kind \in SkipKinds, dup \in BOOLEAN}

InitSkip == DedupInit(Files(SkipRecords, SkipReads), {0}, {FALSE}, {None})

SpecSkip == InitSkip /\ [][Next]_vars

\* SpecCount: files of forward reads at one position with two UMIs, usable
\* or secondary, with the duplicate flag set or clear on input, which reads at
\* a later position may follow; the sensor positions 0 and 2 are further apart
\* than the optical distance and vary only when optical detection is enabled
CountKinds == {<<"ok", FALSE>>, <<"ok", TRUE>>, <<"secondary", TRUE>>}

CountRecords(pixels) ==
  {Record(1, 1, FALSE, 0, umi, <<1>>, x, kind[1], kind[2]) :
     umi \in {UmiA, UmiC}, x \in pixels, kind \in CountKinds}
  \cup {Record(1, 2, FALSE, 0, UmiA, <<1>>, 0, "ok", FALSE)}

InitCount ==
  \/ DedupInit(Files(CountRecords({0}), CountReads), {0}, {FALSE}, {TableFile})
  \/ DedupInit(Files(CountRecords({0, 2}), CountReads), OpticalDist, {FALSE}, {TableFile})

SpecCount == InitCount /\ [][Next]_vars

(***************************************************************************)
(* lib/bayes_estimate.py: apportion_counts.  Python computes the quotients *)
(* and residuals in floating point; the model keeps them exact by scaling  *)
(* every residual by target_sum (> 0 where residuals exist), which orders  *)
(* them the same way.                                                      *)
(***************************************************************************)
\* line 85 without the seed: the plain largest-remainder start
initial_result_zero(cnts) == [i \in DOMAIN cnts |-> 0]

\* line 85: one unit for every positive count
initial_result(cnts) == [i \in DOMAIN cnts |-> IF cnts[i] > 0 THEN 1 ELSE 0]

\* line 86, times target: count / divisor - new_count, divisor = target / sum(counts)
initial_residuals(cnts, target) ==
  [i \in DOMAIN cnts |-> cnts[i] * SeqSum(cnts) - initial_result(cnts)[i] * target]

\* residuals.index(max(residuals)): the first index of the largest residual
which_to_increment(residuals) ==
  CHOOSE i \in DOMAIN residuals :
     /\ \A j \in DOMAIN residuals : residuals[j] <= residuals[i]
     /\ \A j \in DOMAIN residuals : j < i => residuals[j] < residuals[i]

\* lines 88-92
RECURSIVE ApportionLoop(_, _, _, _)
ApportionLoop(res, residuals, remaining_counts, target) ==
  IF remaining_counts > 0
  THEN LET w == which_to_increment(residuals)
       IN ApportionLoop([res EXCEPT ![w] = @ + 1],
                        [residuals EXCEPT ![w] = @ - target],
                        remaining_counts - 1, target)
  ELSE res

apportion_counts(cnts, target) ==
  IF SeqSum(cnts) = 0
  THEN [raised |-> "ZeroDivisionError", value |-> <<>>]   \* line 83: target / 0
  ELSE IF target = 0
  THEN [raised |-> "ZeroDivisionError", value |-> <<>>]   \* line 86: count / 0.0
  ELSE [raised |-> "none",
        value |-> ApportionLoop(initial_result(cnts), initial_residuals(cnts, target),
                                target - SeqSum(initial_result(cnts)), target)]

Apportion ==
  /\ result = Pending
  /\ result' = apportion_counts(counts, target_sum)
  /\ UNCHANGED <<counts, target_sum, dedupVars, bayesVars, poissonVars>>

CountLists == UNION {[1..n -> 0..MaxCount] : n \in 0..MaxLen}

InitApportion ==
  /\ counts \in CountLists
  /\ target_sum \in 0..SeqSum(counts)
  /\ result = Pending
  /\ DedupIdle /\ BayesIdle /\ PoissonIdle

SpecApportion == InitApportion /\ [][Apportion]_vars

(***************************************************************************)
(* lib/bayes_estimate.py: deduplicate_counts with uniform = True.  The     *)
(* table is the list of its counts in key order (the i-th UMI is i); the   *)
(* sampler's draws are pi_post[i] / PiDen.                                 *)
(***************************************************************************)
\* list.sort() of the draws
RECURSIVE SortedDraws(_)
SortedDraws(list) ==
  IF list = <<>> THEN <<>>
  ELSE LET m == CHOOSE i \in DOMAIN list : \A j \in DOMAIN list : list[i] <= list[j]
       IN <<list[m]>> \o SortedDraws([k \in 1..(Len(list) - 1) |->
                                        IF k < m THEN list[k] ELSE list[k + 1]])

\* computeMedian: <<numerator, denominator>> of the median draw
computeMedian(list) ==
  LET sorted == SortedDraws(list)
      lens == Len(list)
  IN IF lens % 2 # 0
     THEN <<sorted[(lens \div 2) + 1], PiDen>>
     ELSE <<sorted[lens \div 2] + sorted[(lens \div 2) + 1], 2 * PiDen>>

\* round(p * N) for p = num / den >= 0: halves round away from zero
RoundProduct(p, N) == (2 * p[1] * N + p[2]) \div (2 * p[2])

\* lines 14-18: the nonzero values, in table order
nonzero_data(table) == SelectSeq(table, LAMBDA value : value > 0)

\* lines 59-66: zip(keys, values, data_dedup) stops at the shortest of the three
zip_result(table, data_dedup) ==
  LET shortest == IF Len(table) <= Len(data_dedup) THEN Len(table) ELSE Len(data_dedup)
  IN [umi \in 1..shortest |-> IF table[umi] = 0 THEN table[umi] ELSE data_dedup[umi]]

deduplicate_counts(table, draws) ==
  LET data == nonzero_data(table)
      n == Len(data)
      p == computeMedian(draws)
      data_dedup == apportion_counts(data, RoundProduct(p, SeqSum(data)))
  IN IF n = 0
     THEN [raised |-> "ZeroDivisionError", value |-> <<>>]   \* line 34: 1./n
     ELSE IF data_dedup.raised # "none"
     THEN [raised |-> data_dedup.raised, value |-> <<>>]
     ELSE IF \E umi \in DOMAIN zip_result(table, data_dedup.value) :
                table[umi] # 0 /\ zip_result(table, data_dedup.value)[umi] <= 0
     THEN [raised |-> "AssertionError", value |-> <<>>]     \* line 66
     ELSE [raised |-> "none", value |-> zip_result(table, data_dedup.value)]

BayesDeduplicate ==
  /\ umi_true = Pending
  /\ umi_true' = deduplicate_counts(umi_counts, pi_post)
  /\ UNCHANGED <<umi_counts, pi_post, dedupVars, apportionVars, poissonVars>>

InitBayes ==
  /\ umi_counts \in CountLists
  /\ pi_post \in UNION {[1..n -> 0..PiDen] : n \in 1..MaxDraws}
  /\ umi_true = Pending
  /\ DedupIdle /\ ApportionIdle /\ PoissonIdle

SpecBayes == InitBayes /\ [][BayesDeduplicate]_vars

(***************************************************************************)
(* lib/poisson_mixture.py: dedup_cluster, lines 186-192, for the winning   *)
(* fit's rates theta (component index 0..k-1 -> rate) and one observed     *)
(* value whose maximum-responsibility component is index.                  *)
(***************************************************************************)
\* the rank of component i in ascending-rate order
Rank(rates, i) == Cardinality({j \in DOMAIN rates : rates[j] < rates[i]})

\* np.argsort: position r holds the index of the component of rank r
argsort(rates) == [r \in DOMAIN rates |-> CHOOSE i \in DOMAIN rates : Rank(rates, i) = r]

FounderNumbers ==
  /\ est = -1
  /\ num_mol' = argsort(theta)
  /\ est' = argsort(theta)[index] * data_i
  /\ UNCHANGED <<theta, index, data_i, dedupVars, apportionVars, bayesVars>>

\* pairwise distinct rates for 1..MaxK components
RateVectors ==
  UNION {{t \in [0..(k - 1) -> 1..MaxK] : \A i, j \in 0..(k - 1) : i # j => t[i] # t[j]} :
           k \in 1..MaxK}

InitPoisson ==
  /\ theta \in RateVectors
  /\ index \in DOMAIN theta
  /\ data_i \in 1..MaxData
  /\ num_mol = <<>>
  /\ est = -1
  /\ DedupIdle /\ ApportionIdle /\ BayesIdle

SpecPoisson == InitPoisson /\ [][FounderNumbers]_vars

(***************************************************************************)
(* Properties of dedup.py                                                  *)
(***************************************************************************)
\* the records the second pass takes, and those it has added to the buffer
AcceptedIds == {i \in DOMAIN in_bam : Accepted(in_bam[i])}
AddedIds == {i \in AcceptedIds : i < nxt}

\* the subsequence of 1..n of the indices in S
RECURSIVE Subsequence(_, _, _)
Subsequence(S, i, n) ==
  IF i > n THEN <<>>
  ELSE (IF i \in S THEN <<i>> ELSE <<>>) \o Subsequence(S, i + 1, n)

SameGroup(i, j) ==
  /\ in_bam[i].reference_id = in_bam[j].reference_id
  /\ GroupKey(in_bam[i]) = GroupKey(in_bam[j])

\* the accepted records that share reference, strand, 5' position and UMI with i
DuplicateSet(i) ==
  {j \in AcceptedIds : SameGroup(i, j) /\ get_umi(in_bam[j]) = get_umi(in_bam[i])}

BufferedKeys == {GroupKey(in_bam[i]) : i \in Range(read_buffer)}

\* C1: every eviction writes the popped record itself, unless it is flagged
\* duplicate and remove is set; and when the run is done the output is the
\* accepted records in input order, each once, without the flagged ones when
\* remove is set.
C1_OutputIsInputOrder ==
  /\ \A k \in DOMAIN evictions :
       LET e == evictions[k]
       IN ~e.raised =>
            \/ e.written = e.popped
            \/ e.written = 0 /\ remove /\ is_duplicate[e.popped]
  /\ pc = "done" =>
       /\ [k \in DOMAIN out_bam |-> out_bam[k].read] =
            Subsequence({i \in AcceptedIds : ~(remove /\ is_duplicate[i])}, 1, Len(in_bam))
       /\ \A k \in DOMAIN out_bam : out_bam[k].is_duplicate = is_duplicate[out_bam[k].read]

\* C2: a position group leaves the tracker at the eviction of its last-added
\* record and at no other eviction, and between main-loop steps every key of
\* the tracker is the key of a buffered record.
C2_PrunedAtLastRead ==
  /\ \A k \in DOMAIN evictions :
       LET e == evictions[k]
       IN ~e.raised => (e.pruned <=> e.popped = e.last_read)
  /\ pc = "read" =>
       /\ DOMAIN pos_tracker \subseteq BufferedKeys
       /\ Cardinality(DOMAIN pos_tracker) <= Cardinality(BufferedKeys)

\* the bound of C2 alone: the tracker holds no key without a buffered record
TrackerWithinBuffer ==
  pc = "read" => DOMAIN pos_tracker \subseteq BufferedKeys

\* C3: when the run is done, every set of m accepted records that share
\* reference, strand, 5' position and UMI has m - 1 records flagged duplicate
\* and one unflagged, and no record of the set has a higher quality total
\* than the unflagged one.
C3_OneSurvivorOfBestQuality ==
  pc = "done" =>
    \A i \in AcceptedIds :
      LET S == DuplicateSet(i)
          kept == {j \in S : ~is_duplicate[j]}
      IN /\ Cardinality(kept) = 1
         /\ Cardinality(S \ kept) = Cardinality(S) - 1
         /\ \A j \in kept : \A l \in S :
              get_quality(in_bam[l]) <= get_quality(in_bam[j])

\* a finished run with optical detection in which three records share a UMI
\* and position, one was marked as optical and one as PCR duplicate
C3_Witness ==
  /\ pc = "done"
  /\ dist # 0
  /\ read_counter.optical_duplicate = 1
  /\ read_counter.PCR_duplicate = 1
  /\ \E i \in AcceptedIds :
       /\ Cardinality(DuplicateSet(i)) = 3
       /\ \E j, l \in DuplicateSet(i) :
            get_quality(in_bam[j]) # get_quality(in_bam[l])

\* C4: without a UMI table, the total of the first-pass table equals the
\* read counter when the input has been flushed (the assertion of line 109
\* holds).
C4_TotalsAgree ==
  /\ (umi_table = None /\ pc = "flush" /\ read_buffer = <<>>) =>
        TableSum(umi_totals) = read_counter.read
  /\ err # "AssertionError"

\* C7: the step that reads a record the second pass does not take changes
\* neither the buffer, the tracker, the counters, the output nor any
\* duplicate flag and evicts nothing; and such a record is never in the
\* buffer, in a position group or in the output, and keeps the flag it came
\* with.
SkippedIds == DOMAIN in_bam \ AcceptedIds

C7_SkipStep ==
  (pc = "read" /\ nxt \in SkippedIds) =>
     /\ UNCHANGED <<read_buffer, pos_tracker, read_counter, out_bam, is_duplicate,
                    evictions, pc, err>>
     /\ nxt' = nxt + 1

C7_SkippedUntouched ==
  \A i \in SkippedIds :
     /\ i \notin Range(read_buffer)
     /\ \A k \in DOMAIN out_bam : out_bam[k].read # i
     /\ \A key \in DOMAIN pos_tracker : \A u \in DOMAIN pos_tracker[key].reads :
          i \notin Range(pos_tracker[key].reads[u])
     /\ is_duplicate[i] = in_bam[i].was_duplicate

C7_SkipAndContinue == [][C7_SkipStep]_vars /\ []C7_SkippedUntouched

\* a record flagged duplicate on input was skipped while the buffer held a
\* record that an accepted record at its place would have evicted
C7_Witness ==
  /\ pc = "read"
  /\ nxt - 1 \in SkippedIds
  /\ in_bam[nxt - 1].was_duplicate
  /\ read_buffer # <<>>
  /\ AdvanceCondition(in_bam[Head(read_buffer)], in_bam[nxt - 1])
  /\ read_counter.read = 1

\* C8: every record the second pass has added to the buffer was a member of
\* its position group (same reference, strand and 5' position) when that
\* group was deduplicated: no record joins a deduplicated group and no group
\* with its key is created on that reference afterwards.
C8_GroupCompleteWhenDeduplicated ==
  \A k \in DOMAIN evictions :
     evictions[k].deduplicated =>
        \A i \in AddedIds :
           SameGroup(i, evictions[k].popped) => i \in evictions[k].members

\* a group was deduplicated at the eviction of a forward read, and a later
\* record of the same reference has been added since: it joined the group of
\* a reverse read that starts left of its 5' end, was buffered before the
\* eviction and is still buffered
C8_Witness ==
  /\ pc = "read"
  /\ \E k \in DOMAIN evictions :
       /\ evictions[k].deduplicated
       /\ \E i \in AddedIds \ evictions[k].members :
            /\ in_bam[i].reference_id = in_bam[evictions[k].popped].reference_id
            /\ \A m \in evictions[k].members : m < i
            /\ \E j \in Range(read_buffer) :
                 /\ j < i
                 /\ SameGroup(i, j)
                 /\ in_bam[j].is_reverse
                 /\ in_bam[j].rightmost > in_bam[j].reference_start

\* C10: between main-loop steps and at every eviction, every buffered
\* record's position group is in the tracker, and the lookup of line 34
\* never raises KeyError.
C10_BufferedGroupsTracked ==
  /\ pc \in {"read", "advance", "flush"} =>
        \A i \in Range(read_buffer) : GroupKey(in_bam[i]) \in DOMAIN pos_tracker
  /\ err # "KeyError"

\* C11: when the run is done, the usable reads counted are the optical
\* duplicates plus the PCR duplicates plus the unique reads; every accepted
\* record's position group was deduplicated at exactly one eviction; and the
\* accepted records whose duplicate flag is set number the optical plus the
\* PCR duplicates.
C11_CountersConserved ==
  pc = "done" =>
    /\ read_counter.read = read_counter.optical_duplicate
                              + read_counter.PCR_duplicate + read_counter.unique
    /\ \A i \in AcceptedIds :
         Cardinality({k \in DOMAIN evictions :
                        evictions[k].deduplicated /\ i \in evictions[k].members}) = 1
    /\ Cardinality({i \in AcceptedIds : is_duplicate[i]})
         = read_counter.optical_duplicate + read_counter.PCR_duplicate

\* a finished run with optical detection over three usable records of one UMI
\* and position: one was counted as optical duplicate, one as PCR duplicate
\* and one as unique, and a record that came flagged ends unflagged
C11_Witness ==
  /\ pc = "done"
  /\ dist # 0
  /\ read_counter.read = 3
  /\ read_counter.optical_duplicate = 1
  /\ read_counter.PCR_duplicate = 1
  /\ read_counter.unique = 1
  /\ \E i \in AcceptedIds : in_bam[i].was_duplicate /\ ~is_duplicate[i]

(***************************************************************************)
(* Properties of apportion_counts                                          *)
(***************************************************************************)
Positive(cnts) == Cardinality({i \in DOMAIN cnts : cnts[i] > 0})

SameLengthAndZeros(cnts, value) ==
  /\ Len(value) = Len(cnts)
  /\ \A i \in DOMAIN cnts : value[i] = 0 <=> cnts[i] = 0

\* C5 as stated: for 0 <= target_sum <= sum(counts) the call returns a list
\* of the same length that sums to target_sum and is 0 exactly where the
\* count is 0.
C5_SumsToTarget ==
  result # Pending =>
    /\ result.raised = "none"
    /\ SameLengthAndZeros(counts, result.value)
    /\ SeqSum(result.value) = target_sum

\* C5 amended: for 1 <= target_sum <= sum(counts) the call returns a list of
\* the same length, 0 exactly where the count is 0, that sums to the larger
\* of target_sum and the number of positive counts; for target_sum = 0 it
\* raises ZeroDivisionError.
C5_SumsToTargetOrPositives ==
  result # Pending =>
    IF target_sum = 0
    THEN result.raised = "ZeroDivisionError"
    ELSE /\ result.raised = "none"
         /\ SameLengthAndZeros(counts, result.value)
         /\ SeqSum(result.value) = Max(target_sum, Positive(counts))

\* a call with a zero count among positive ones whose loop ran at least twice
C5_Witness ==
  /\ result.raised = "none"
  /\ \E i \in DOMAIN counts : counts[i] = 0
  /\ Positive(counts) >= 2
  /\ target_sum >= Positive(counts) + 2
  /\ target_sum < SeqSum(counts)
  /\ SeqSum(result.value) = target_sum

(***************************************************************************)
(* Properties of deduplicate_counts                                        *)
(***************************************************************************)
\* the number of nonzero entries among the first umi entries of the table
NonzeroUpTo(table, umi) == Cardinality({j \in 1..umi : table[j] > 0})

\* C6: a call that returns gives a mapping defined on every UMI of the
\* table, 0 for a zero count, and for the i-th nonzero UMI the i-th value
\* that apportion_counts gave, which is at least 1.
C6_ResultMapping ==
  umi_true.raised = "none" =>
    LET shares == apportion_counts(nonzero_data(umi_counts),
                     RoundProduct(computeMedian(pi_post),
                                  SeqSum(nonzero_data(umi_counts)))).value
    IN /\ DOMAIN umi_true.value = DOMAIN umi_counts
       /\ \A umi \in DOMAIN umi_counts :
            IF umi_counts[umi] = 0
            THEN umi_true.value[umi] = 0
            ELSE /\ umi_true.value[umi] = shares[NonzeroUpTo(umi_counts, umi)]
                 /\ umi_true.value[umi] >= 1

(***************************************************************************)
(* Properties of dedup_cluster                                             *)
(***************************************************************************)
\* C9: the founder number of every component is its rank in ascending-rate
\* order, and the observed value is credited rank(index) * data.
C9_FounderNumberIsRank ==
  est # -1 =>
    /\ \A i \in DOMAIN theta : num_mol[i] = Rank(theta, i)
    /\ est = Rank(theta, index) * data_i
====
